---- MODULE Spec2Model ----
(***************************************************************************)
(* Model of io_unity's UnityAssetViewer (src/io_unity/src/                 *)
(* unity_asset_view.rs): the five indices and two counters built by        *)
(* read_dir, and the eight lookup methods served from them.                *)
(*                                                                         *)
(* read_dir is modelled statement by statement: the variable pc is the     *)
(* position of the call inside its two nested loops, and each action is    *)
(* the straight-line code between two points where the call can return     *)
(* with `?`.  The viewer is borrowed mutably for the whole call, so the    *)
(* lookups (which take &self) run only while pc = "idle".                  *)
(*                                                                         *)
(* The collaborators UnityFS, SerializedFile, TypeTreeObject and PPtr are  *)
(* not part of the modelled file; what they return is an input of the      *)
(* model, drawn from the bounded sets below.                               *)
(***************************************************************************)
EXTENDS Integers, Sequences, FiniteSets, TLC

VARIABLES
    cab_maps,                        \* HashMap<String, i64>
    serialized_file_map,             \* BTreeMap<i64, SerializedFile>
    serialized_file_count,           \* i64
    unity_fs_map,                    \* BTreeMap<i64, UnityFS>
    unity_fs_count,                  \* i64
    serialized_file_to_unity_fs_map, \* BTreeMap<i64, i64>
    container_maps,                  \* HashMap<String, Vec<(i64, PPtr)>>
    container_name_maps,             \* HashMap<i64, HashMap<i64, String>>
    pc,                              \* position of the running read_dir call
    unity_fs,                        \* local: the archive being ingested
    unity_fs_id,                     \* local: its identifier
    serialized_file,                 \* local: the table just parsed
    ret                              \* what read_dir returned, None while it runs

vars == <<cab_maps, serialized_file_map, serialized_file_count, unity_fs_map,
          unity_fs_count, serialized_file_to_unity_fs_map, container_maps,
          container_name_maps, pc, unity_fs, unity_fs_id, serialized_file, ret>>

indices == <<cab_maps, serialized_file_map, serialized_file_count, unity_fs_map,
             unity_fs_count, serialized_file_to_unity_fs_map, container_maps,
             container_name_maps>>

locals == <<unity_fs, unity_fs_id, serialized_file>>

-----------------------------------------------------------------------------
(* Bounds of the model. *)

\* The size of everything one viewer ingests over its lifetime: the archives
\* it opens, the virtual files it extracts and the manifest entries it scans,
\* counted together.
MaxSize == 5

\* Virtual-file names an archive can list.
CabNames == {"CAB-a", "CAB-b"}
\* Container names a manifest can register.
Names == {"N", "M"}
\* Object identifiers a pointer can name.  Object 1, the manifest object by
\* convention, is looked up by read_dir itself.
PathIds == {0, 2}

-----------------------------------------------------------------------------
(* Option<T>: None is the empty tuple, Some(x) the one-element tuple. *)

None == <<>>
Some(x) == <<x>>
IsSome(o) == Len(o) = 1
Unwrap(o) == o[1]

\* HashMap::insert / BTreeMap::insert: add the key or overwrite its value.
Insert(m, k, v) == [x \in (DOMAIN m) \cup {k} |-> IF x = k THEN v ELSE m[x]]

EmptyMap == [x \in {} |-> None]

-----------------------------------------------------------------------------
(* What the collaborators hand to read_dir.                                *)

\* anyhow::Result<T>
Ok(x) == <<"Ok", x>>
Err == <<"Err">>

\* The /Base/asset field of one asset-info: absent, or a pointer whose
\* m_PathID is absent or names an object.
Assets == {None} \cup {Some(None)} \cup {Some(Some(p)) : p \in PathIds}

\* One (name, asset_info) pair of /Base/m_Container/Array.
Entries == [name : Names, asset : Assets]

\* A string-keyed map of at most n entries in the order it is iterated: no
\* name occurs twice.
KeyedSeqs(n) ==
    {s \in UNION {[1..k -> Entries] : k \in 0..n} :
        \A i, j \in 1..Len(s) : s[i].name = s[j].name => i = j}

\* Object 1 of a table: absent, decoding without the container array, or
\* decoding with an array of at most n entries.
Manifests(n) ==
    {[kind |-> k, entries |-> <<>>] : k \in {"absent", "no_array"}}
    \cup {[kind |-> "array", entries |-> s] : s \in KeyedSeqs(n)}

\* SerializedFile::read(reader, id) on the bytes of virtual file cab_path:
\* the table keeps the identifier it was parsed with.
Tables(id, cab_path, n) ==
    {[id |-> id, cab_path |-> cab_path, manifest |-> m] : m \in Manifests(n)}

\* TypeTreeObject: a decoded object remembers the table it came from.
TypeTreeObject(sf_id, path_id) == [serialized_file_id |-> sf_id, path_id |-> path_id]

\* SerializedFile::get_tt_object_by_path_id.  Object 1 is there unless the
\* table has no manifest object (a lookup of it that fails to decode takes
\* the same branch of read_dir as an absent one); every identifier of
\* PathIds names an object of every table.
get_tt_object_by_path_id(table, path_id) ==
    IF path_id = 1 /\ table.manifest.kind = "absent"
    THEN Ok(None)
    ELSE Ok(Some(TypeTreeObject(table.id, path_id)))

\* TypeTreeObject::get_string_key_map_by_path("/Base/m_Container/Array")
get_string_key_map_by_path(table) ==
    IF table.manifest.kind = "array" THEN Some(table.manifest.entries) ELSE None

\* PPtr::new on the pointer field decoded out of table sf_id.
PPtrNew(sf_id, path_id) == [serialized_file_id |-> sf_id, path_id |-> path_id]

\* PPtr::get_serialized_file_id, PPtr::get_path_id
get_serialized_file_id(pptr) == pptr.serialized_file_id
get_path_id(pptr) == pptr.path_id

\* PPtr::get_type_tree_object(serialized_file, Some(viewer)).  The pointers
\* of the model are local: their target is in the table that holds them.
get_type_tree_object(pptr, table) ==
    IF IsSome(get_path_id(pptr))
    THEN get_tt_object_by_path_id(table, Unwrap(get_path_id(pptr)))
    ELSE Ok(None)

-----------------------------------------------------------------------------
(* read_dir *)

RECURSIVE SumLen(_, _)
SumLen(m, ids) ==
    IF ids = {} THEN 0
    ELSE LET i == CHOOSE x \in ids : TRUE
         IN Len(m[i].manifest.entries) + SumLen(m, ids \ {i})

\* Manifest entries ingested so far.
EntriesIngested ==
    SumLen(serialized_file_map, DOMAIN serialized_file_map)
    + (IF pc = "parsed" THEN Len(serialized_file.manifest.entries) ELSE 0)

\* The part of MaxSize already spent.
Size == unity_fs_count + serialized_file_count + EntriesIngested

NoArchive == [cab_paths |-> <<>>]
NoTable == [id |-> -1, cab_path |-> "", manifest |-> [kind |-> "absent", entries |-> <<>>]]
NoLocals == /\ unity_fs' = NoArchive
            /\ unity_fs_id' = -1
            /\ serialized_file' = NoTable


Init ==
    /\ cab_maps = EmptyMap
    /\ serialized_file_map = EmptyMap
    /\ serialized_file_count = 0
    /\ unity_fs_map = EmptyMap
    /\ unity_fs_count = 0
    /\ serialized_file_to_unity_fs_map = EmptyMap
    /\ container_maps = EmptyMap
    /\ container_name_maps = EmptyMap
    /\ pc = "idle"
    /\ unity_fs = NoArchive
    /\ unity_fs_id = -1
    /\ serialized_file = NoTable
    /\ ret = None

\* `?` taken: read_dir returns the error, its locals are dropped.
ReturnErr ==
    /\ pc' = "idle"
    /\ ret' = Some(Err)
    /\ NoLocals

\* line 36: std::fs::read_dir(dir_path)? fails
ReadDirListFails ==
    /\ pc = "idle"
    /\ ReturnErr
    /\ UNCHANGED indices

\* line 36: the directory is listed, the loop over its entries starts
ReadDirBegin ==
    /\ pc = "idle"
    /\ pc' = "dir"
    /\ ret' = None
    /\ UNCHANGED <<indices, locals>>

\* The archive identifier taken before the entry is known to be a file.
SkipEntryCounted ==
    /\ pc = "dir"
    /\ unity_fs_count < MaxSize
    /\ unity_fs_count' = unity_fs_count + 1
    /\ UNCHANGED <<cab_maps, serialized_file_map, serialized_file_count, unity_fs_map,
                   serialized_file_to_unity_fs_map, container_maps,
                   container_name_maps, pc, unity_fs, unity_fs_id, serialized_file, ret>>

\* lines 38-40, 97-99: an entry that is an error, has no file type or is
\* not a regular file is passed over
SkipEntry ==
    /\ pc = "dir"
    /\ UNCHANGED vars

\* line 41: OpenOptions::open(entry.path())? fails
OpenFails ==
    /\ pc = "dir"
    /\ ReturnErr
    /\ UNCHANGED indices

\* line 44: UnityFS::read(...)? fails
UnityFSReadFails ==
    /\ pc = "dir"
    /\ ReturnErr
    /\ UNCHANGED indices

\* lines 46, 52: the identifier handed to the next archive / table
NextId(count) == count

\* The counter left as it is.
BumpForgotten(count) == count

\* lines 47, 53: the counter moves on
Bump(count) == count + 1

\* lines 41-47: the archive opens and gets the next archive identifier
OpenArchive ==
    /\ pc = "dir"
    /\ Size < MaxSize
    /\ unity_fs' = NoArchive
    /\ unity_fs_id' = NextId(unity_fs_count)
    /\ unity_fs_count' = Bump(unity_fs_count)
    /\ pc' = "cabs"
    /\ UNCHANGED <<cab_maps, serialized_file_map, serialized_file_count, unity_fs_map,
                   serialized_file_to_unity_fs_map, container_maps,
                   container_name_maps, serialized_file, ret>>

\* line 102: the directory is exhausted
ReadDirEnd ==
    /\ pc = "dir"
    /\ pc' = "idle"
    /\ ret' = Some(Ok(None))
    /\ UNCHANGED <<indices, locals>>

\* line 50: unity_fs.get_file_by_path(&cab_path)? fails
ExtractFails ==
    /\ pc = "cabs"
    /\ ReturnErr
    /\ UNCHANGED indices

\* The virtual-file name entered in cab_maps before the parse, which fails.
ParseFailsNamed ==
    /\ pc = "cabs"
    /\ Size < MaxSize
    /\ \E cab_path \in CabNames :
          cab_maps' = Insert(cab_maps, cab_path, NextId(serialized_file_count))
    /\ serialized_file_count' = Bump(serialized_file_count)
    /\ ReturnErr
    /\ UNCHANGED <<serialized_file_map, unity_fs_map, unity_fs_count,
                   serialized_file_to_unity_fs_map, container_maps,
                   container_name_maps>>

\* lines 50-57: the bytes are extracted, the table identifier is taken, and
\* SerializedFile::read(...)? fails
ParseFails ==
    /\ pc = "cabs"
    /\ Size < MaxSize
    /\ serialized_file_count' = Bump(serialized_file_count)
    /\ ReturnErr
    /\ UNCHANGED <<cab_maps, serialized_file_map, unity_fs_map, unity_fs_count,
                   serialized_file_to_unity_fs_map, container_maps,
                   container_name_maps>>

\* lines 50-57: the bytes are extracted, the table identifier is taken, and
\* the table parses
ParseTable ==
    /\ pc = "cabs"
    /\ Size < MaxSize
    /\ \E cab_path \in CabNames :
        /\ unity_fs' = [cab_paths |-> Append(unity_fs.cab_paths, cab_path)]
        /\ \E t \in Tables(NextId(serialized_file_count), cab_path,
                           MaxSize - Size - 1) :
            serialized_file' = t
    /\ serialized_file_count' = Bump(serialized_file_count)
    /\ pc' = "parsed"
    /\ UNCHANGED <<cab_maps, serialized_file_map, unity_fs_map, unity_fs_count,
                   serialized_file_to_unity_fs_map, container_maps,
                   container_name_maps, unity_fs_id, ret>>

\* The name's list started afresh by every candidate.
PushCandidateReplace(cm, name, cand) == Insert(cm, name, <<cand>>)

\* The candidate put in front of the name's list.
PushCandidateFront(cm, name, cand) ==
    IF name \in DOMAIN cm
    THEN [cm EXCEPT ![name] = <<cand>> \o @]
    ELSE Insert(cm, name, <<cand>>)

\* The candidate dropped when the name already has a list.
PushCandidateIfNew(cm, name, cand) ==
    IF name \in DOMAIN cm THEN cm ELSE Insert(cm, name, <<cand>>)

\* lines 75-80: append the candidate to the name's list, or start the list
PushCandidate(cm, name, cand) ==
    IF name \in DOMAIN cm
    THEN [cm EXCEPT ![name] = Append(@, cand)]
    ELSE Insert(cm, name, <<cand>>)

\* line 72: name_map.insert(path_id, name.clone())
NameMapInsert(nm, path_id, name) == Insert(nm, path_id, name)

\* lines 66-82: the loop over the (name, asset_info) pairs of the manifest;
\* st carries container_maps (cm) and the table's name_map (nm)
RECURSIVE ScanContainers(_, _, _)
ScanContainers(containers, sf_id, st) ==
    IF containers = <<>> THEN st
    ELSE LET e == Head(containers)
             rest == Tail(containers)
         IN IF ~IsSome(e.asset)
            THEN ScanContainers(rest, sf_id, st)
            ELSE LET pptr == PPtrNew(sf_id, Unwrap(e.asset))
                     nm == IF IsSome(get_path_id(pptr))
                           THEN NameMapInsert(st.nm, Unwrap(get_path_id(pptr)), e.name)
                           ELSE st.nm
                     cm == PushCandidate(st.cm, e.name, <<sf_id, pptr>>)
                 IN ScanContainers(rest, sf_id, [cm |-> cm, nm |-> nm])

\* lines 59-61: is there an asset bundle object to scan?
HasAssetBundle(table) ==
    LET r == get_tt_object_by_path_id(table, 1)
    IN r # Err /\ IsSome(r[2])

\* lines 59-86: the manifest of the parsed table, when it has one, is folded
\* into container_maps and its reverse map is stored under the table's id
ScanManifest ==
    LET sf_id == serialized_file.id
        containers == get_string_key_map_by_path(serialized_file)
    IN IF HasAssetBundle(serialized_file) /\ IsSome(containers)
       THEN LET st == ScanContainers(Unwrap(containers), sf_id,
                                     [cm |-> container_maps, nm |-> EmptyMap])
            IN /\ container_maps' = st.cm
               /\ container_name_maps' = Insert(container_name_maps, sf_id, st.nm)
       ELSE UNCHANGED <<container_maps, container_name_maps>>

\* The name kept for the table that had it first.
RegisterCabKeepFirst(m, cab_path, sf_id) ==
    IF cab_path \in DOMAIN m THEN m ELSE Insert(m, cab_path, sf_id)

\* line 92: self.cab_maps.insert(cab_path, serialized_file_id)
RegisterCab(m, cab_path, sf_id) == Insert(m, cab_path, sf_id)

\* The registration done only for a table whose manifest was scanned.
RegisterParsedIfScanned ==
    IF HasAssetBundle(serialized_file)
       /\ IsSome(get_string_key_map_by_path(serialized_file))
    THEN /\ serialized_file_map' =
                Insert(serialized_file_map, serialized_file.id, serialized_file)
         /\ serialized_file_to_unity_fs_map' =
                Insert(serialized_file_to_unity_fs_map, serialized_file.id, unity_fs_id)
         /\ cab_maps' = Insert(cab_maps, serialized_file.cab_path, serialized_file.id)
    ELSE UNCHANGED <<serialized_file_map, serialized_file_to_unity_fs_map, cab_maps>>

\* The registration that leaves out the table's archive.
RegisterParsedWithoutArchive ==
    /\ serialized_file_map' =
            Insert(serialized_file_map, serialized_file.id, serialized_file)
    /\ UNCHANGED serialized_file_to_unity_fs_map
    /\ cab_maps' = RegisterCab(cab_maps, serialized_file.cab_path, serialized_file.id)

\* lines 88-92: the table is registered under its id, its archive's id and
\* its virtual-file name
RegisterParsed ==
    /\ serialized_file_map' =
            Insert(serialized_file_map, serialized_file.id, serialized_file)
    /\ serialized_file_to_unity_fs_map' =
            Insert(serialized_file_to_unity_fs_map, serialized_file.id, unity_fs_id)
    /\ cab_maps' = RegisterCab(cab_maps, serialized_file.cab_path, serialized_file.id)

\* lines 59-92: one parsed table is scanned and registered; nothing in
\* between can fail
RegisterTable ==
    /\ pc = "parsed"
    /\ ScanManifest
    /\ RegisterParsed
    /\ serialized_file' = NoTable
    /\ pc' = "cabs"
    /\ UNCHANGED <<serialized_file_count, unity_fs_map, unity_fs_count, unity_fs,
                   unity_fs_id, ret>>

\* line 95: every virtual file of the archive is done, the archive is kept
RegisterArchive ==
    /\ pc = "cabs"
    /\ unity_fs_map' = Insert(unity_fs_map, unity_fs_id, unity_fs)
    /\ pc' = "dir"
    /\ NoLocals
    /\ UNCHANGED <<cab_maps, serialized_file_map, serialized_file_count, unity_fs_count,
                   serialized_file_to_unity_fs_map, container_maps,
                   container_name_maps, ret>>

ReadDir ==
    \/ ReadDirListFails
    \/ ReadDirBegin
    \/ SkipEntry
    \/ OpenFails
    \/ UnityFSReadFails
    \/ OpenArchive
    \/ ReadDirEnd
    \/ ExtractFails
    \/ ParseFails
    \/ ParseTable
    \/ RegisterTable
    \/ RegisterArchive

-----------------------------------------------------------------------------
(* The lookups, as functions of the viewer's fields. *)

\* The most recent candidate instead of the oldest.
LastCandidate(candidates) ==
    IF Len(candidates) > 0 THEN Some(candidates[Len(candidates)]) ELSE None

\* lines 183, 197: the candidate a container name resolves through
FirstCandidate(candidates) ==
    IF Len(candidates) > 0 THEN Some(candidates[1]) ELSE None

\* BTreeMap::get / HashMap::get
Get(m, k) == IF k \in DOMAIN m THEN Some(m[k]) ELSE None

\* lines 105-112
get_serialized_file_by_path(path) ==
    IF IsSome(Get(cab_maps, path))
    THEN Get(serialized_file_map, cab_maps[path])
    ELSE None

\* lines 114-124
get_unity_fs_by_cab_path(path) ==
    IF IsSome(Get(cab_maps, path))
    THEN IF IsSome(Get(serialized_file_to_unity_fs_map, cab_maps[path]))
         THEN Get(unity_fs_map, serialized_file_to_unity_fs_map[cab_maps[path]])
         ELSE None
    ELSE None

\* lines 126-138
get_unity_fs_by_pptr(pptr) ==
    LET serialized_file_id == get_serialized_file_id(pptr)
    IN IF IsSome(Get(serialized_file_to_unity_fs_map, serialized_file_id))
       THEN Get(unity_fs_map, serialized_file_to_unity_fs_map[serialized_file_id])
       ELSE None

\* lines 140-153
get_unity_fs_by_type_tree_object(type_tree_object) ==
    IF IsSome(Get(serialized_file_to_unity_fs_map, type_tree_object.serialized_file_id))
    THEN Get(unity_fs_map,
             serialized_file_to_unity_fs_map[type_tree_object.serialized_file_id])
    ELSE None

\* lines 155-166
get_container_name_by_path_id(cab_name, path_id) ==
    IF IsSome(Get(cab_maps, cab_name))
    THEN IF IsSome(Get(container_name_maps, cab_maps[cab_name]))
         THEN Get(container_name_maps[cab_maps[cab_name]], path_id)
         ELSE None
    ELSE None

\* An absent target identifier read as identifier 0.
get_container_name_by_pptr_or_zero(pptr) ==
    LET serialized_file_id == get_serialized_file_id(pptr)
        path_id == IF IsSome(get_path_id(pptr)) THEN Unwrap(get_path_id(pptr)) ELSE 0
    IN IF IsSome(Get(container_name_maps, serialized_file_id))
       THEN Get(container_name_maps[serialized_file_id], path_id)
       ELSE None

\* lines 168-176
get_container_name_by_pptr(pptr) ==
    LET serialized_file_id == get_serialized_file_id(pptr)
    IN IF IsSome(Get(container_name_maps, serialized_file_id))
       THEN IF IsSome(get_path_id(pptr))
            THEN Get(container_name_maps[serialized_file_id], Unwrap(get_path_id(pptr)))
            ELSE None
       ELSE None

\* An unknown container name reported as an error.
get_type_tree_object_by_container_name_or_err(container_name) ==
    IF IsSome(Get(container_maps, container_name))
    THEN get_type_tree_object(FirstCandidate(container_maps[container_name])[1][2],
                              serialized_file_map[
                                  FirstCandidate(container_maps[container_name])[1][1]])
    ELSE Err

\* lines 178-190
get_type_tree_object_by_container_name(container_name) ==
    IF IsSome(Get(container_maps, container_name))
    THEN LET first == FirstCandidate(container_maps[container_name])
         IN IF IsSome(first)
            THEN IF IsSome(Get(serialized_file_map, Unwrap(first)[1]))
                 THEN get_type_tree_object(Unwrap(first)[2],
                                           serialized_file_map[Unwrap(first)[1]])
                 ELSE Ok(None)
            ELSE Ok(None)
    ELSE Ok(None)

\* lines 192-202
get_serialized_file_by_container_name(container_name) ==
    IF IsSome(Get(container_maps, container_name))
    THEN LET first == FirstCandidate(container_maps[container_name])
         IN IF IsSome(first)
            THEN Get(serialized_file_map, Unwrap(first)[1])
            ELSE None
    ELSE None

\* Arguments the lookups are called with: every name, and pointers and
\* objects of every table identifier handed out so far and of the next one.
TableIdArgs == 0..serialized_file_count
PPtrArgs == {PPtrNew(i, t) : i \in TableIdArgs, t \in {None} \cup {Some(q) : q \in PathIds}}
ObjectArgs == {TypeTreeObject(i, q) : i \in TableIdArgs, q \in PathIds}

\* Option<T> and anyhow::Result<Option<T>>, the lookups' return types
IsOption(v) == Len(v) <= 1
IsResultOption(v) == v = Err \/ (Len(v) = 2 /\ v[1] = "Ok" /\ IsOption(v[2]))

\* A lookup that takes the entry out of cab_maps (remove in place of get).
LookupTaking(returns) ==
    /\ pc = "idle"
    /\ returns
    /\ cab_maps' = EmptyMap
    /\ UNCHANGED <<serialized_file_map, serialized_file_count, unity_fs_map, unity_fs_count,
                   serialized_file_to_unity_fs_map, container_maps,
                   container_name_maps, pc, unity_fs, unity_fs_id, serialized_file, ret>>

\* A lookup takes &self: it runs between read_dir calls, returns a value of
\* its return type and leaves every field as it was.  The step is the same
\* whatever the argument, so one step stands for the call with any of them.
Lookup(returns) ==
    /\ pc = "idle"
    /\ returns
    /\ UNCHANGED vars

SerializedFileByPath ==
    Lookup(\A path \in CabNames : IsOption(get_serialized_file_by_path(path)))

UnityFsByCabPath ==
    Lookup(\A path \in CabNames : IsOption(get_unity_fs_by_cab_path(path)))

UnityFsByPPtr ==
    Lookup(\A pptr \in PPtrArgs : IsOption(get_unity_fs_by_pptr(pptr)))

UnityFsByTypeTreeObject ==
    Lookup(\A o \in ObjectArgs : IsOption(get_unity_fs_by_type_tree_object(o)))

ContainerNameByPathId ==
    Lookup(\A cab_name \in CabNames, path_id \in PathIds :
              IsOption(get_container_name_by_path_id(cab_name, path_id)))

ContainerNameByPPtr ==
    Lookup(\A pptr \in PPtrArgs : IsOption(get_container_name_by_pptr(pptr)))

TypeTreeObjectByContainerName ==
    Lookup(\A name \in Names :
              IsResultOption(get_type_tree_object_by_container_name(name)))

SerializedFileByContainerName ==
    Lookup(\A name \in Names : IsOption(get_serialized_file_by_container_name(name)))

Lookups ==
    \/ SerializedFileByPath
    \/ UnityFsByCabPath
    \/ UnityFsByPPtr
    \/ UnityFsByTypeTreeObject
    \/ ContainerNameByPathId
    \/ ContainerNameByPPtr
    \/ TypeTreeObjectByContainerName
    \/ SerializedFileByContainerName

Next == ReadDir \/ Lookups

Spec == Init /\ [][Next]_vars

-----------------------------------------------------------------------------
(* Properties *)

Keys(m) == DOMAIN m

\* A step never reassigns a key of map m, and a key it adds is larger than
\* every key m held before.
GrowsUpward(m, mNext) ==
    /\ \A k \in Keys(m) : k \in Keys(mNext) /\ mNext[k] = m[k]
    /\ \A k \in Keys(mNext) \ Keys(m) : \A j \in Keys(m) : j < k

\* C1: over any sequence of read_dir calls, failed ones included, the two
\* counters never decrease; every archive / table identifier in use is below
\* its counter; a table keeps the identifier it was parsed with; no key of
\* unity_fs_map or serialized_file_map is ever given to a second archive or
\* table; and keys are added in strictly increasing order.
C1_IdentifiersUniqueIncreasing ==
    [][ /\ unity_fs_count' >= unity_fs_count
        /\ serialized_file_count' >= serialized_file_count
        /\ \A k \in Keys(unity_fs_map') : 0 <= k /\ k < unity_fs_count'
        /\ \A k \in Keys(serialized_file_map') :
              /\ 0 <= k /\ k < serialized_file_count'
              /\ serialized_file_map'[k].id = k
        /\ pc' \in {"cabs", "parsed"} =>
              /\ 0 <= unity_fs_id' /\ unity_fs_id' < unity_fs_count'
              /\ unity_fs_id' \notin Keys(unity_fs_map')
        /\ pc' = "parsed" =>
              /\ 0 <= serialized_file'.id /\ serialized_file'.id < serialized_file_count'
              /\ serialized_file'.id \notin Keys(serialized_file_map')
        /\ GrowsUpward(unity_fs_map, unity_fs_map')
        /\ GrowsUpward(serialized_file_map, serialized_file_map')
      ]_vars

\* C1 witness: a second read_dir call has completed after a first one failed
\* inside an archive; table 1 was lost to the failure and tables 0 and 2,
\* archive 1 are registered.
C1_Witness ==
    /\ pc = "idle"
    /\ ret = Some(Ok(None))
    /\ Keys(serialized_file_map) = {0, 2}
    /\ Keys(unity_fs_map) = {1}
    /\ serialized_file_count = 3
    /\ unity_fs_count = 2

\* C2: once a container name has a candidate list, every later step keeps
\* the list's first (table id, pointer) pair, and both by-name lookups go
\* through that pair and no other: the table returned is the first pair's
\* table, the object returned is the first pair's pointer resolved in it.
C2_FirstCandidateOnly ==
    [][ \A name \in Names :
          name \in Keys(container_maps) =>
            LET first == container_maps[name][1]
            IN /\ name \in Keys(container_maps')
               /\ container_maps'[name][1] = first
               /\ get_serialized_file_by_container_name(name)' =
                      Get(serialized_file_map', first[1])
               /\ first[1] \in Keys(serialized_file_map')
               /\ get_type_tree_object_by_container_name(name)' =
                      get_type_tree_object(first[2], serialized_file_map'[first[1]])
      ]_vars

\* C2 witness: a name registered by two different tables, between calls; the
\* by-name lookup returns the table that registered it first.
C2_Witness ==
    /\ pc = "idle"
    /\ \E name \in Keys(container_maps) :
          /\ Len(container_maps[name]) >= 2
          /\ container_maps[name][1][1] # container_maps[name][2][1]
          /\ container_maps[name][1][2].path_id # container_maps[name][2][2].path_id
          /\ get_serialized_file_by_container_name(name) =
                 Some(serialized_file_map[container_maps[name][1][1]])

\* The manifest entries of a registered table, by position.
EntryIds(id) == 1..Len(serialized_file_map[id].manifest.entries)
EntryOf(id, i) == serialized_file_map[id].manifest.entries[i]

\* Entry i of table id carries a pointer (and so contributed a candidate).
HasPointer(id, i) == IsSome(EntryOf(id, i).asset)

\* Entry i of table id carries a pointer whose target identifier is present.
HasTarget(id, i) == HasPointer(id, i) /\ IsSome(Unwrap(EntryOf(id, i).asset))
TargetOf(id, i) == Unwrap(Unwrap(EntryOf(id, i).asset))

\* No table registered before table id carries a pointer under the name of
\* its entry i.
FirstUnderName(id, i) ==
    \A j \in Keys(serialized_file_map) : j < id =>
        \A k \in EntryIds(j) :
            ~(HasPointer(j, k) /\ EntryOf(j, k).name = EntryOf(id, i).name)

\* C3 as stated: for every manifest entry (N, pointer to t) of every
\* registered table T, resolving N by container name gives the object that
\* T's own lookup of t gives.
C3_RoundTripAnyEntry ==
    \A id \in Keys(serialized_file_map) : \A i \in EntryIds(id) :
        HasTarget(id, i) =>
            get_type_tree_object_by_container_name(EntryOf(id, i).name) =
                get_tt_object_by_path_id(serialized_file_map[id], TargetOf(id, i))

\* C3 amended: the round trip holds for the entry that was the first to
\* carry a pointer under its name.
C3_RoundTripFirstEntry ==
    \A id \in Keys(serialized_file_map) : \A i \in EntryIds(id) :
        (HasTarget(id, i) /\ FirstUnderName(id, i)) =>
            get_type_tree_object_by_container_name(EntryOf(id, i).name) =
                get_tt_object_by_path_id(serialized_file_map[id], TargetOf(id, i))

\* C3 witness: between calls, a name first registered by one table with a
\* present target and registered again by a later table.
C3_Witness ==
    /\ pc = "idle"
    /\ \E id \in Keys(serialized_file_map) : \E i \in EntryIds(id) :
          /\ HasTarget(id, i)
          /\ FirstUnderName(id, i)
          /\ \E j \in Keys(serialized_file_map) : \E k \in EntryIds(j) :
                /\ j > id
                /\ HasPointer(j, k)
                /\ EntryOf(j, k).name = EntryOf(id, i).name

\* The name of the first entry of table id that points at target t.
FirstNameFor(id, t) ==
    LET first == CHOOSE k \in EntryIds(id) :
                    /\ HasTarget(id, k) /\ TargetOf(id, k) = t
                    /\ \A m \in EntryIds(id) :
                          (HasTarget(id, m) /\ TargetOf(id, m) = t) => k <= m
    IN EntryOf(id, first).name

\* C4 as stated: for every manifest entry (name, pointer to t) of every
\* registered table T, both reverse lookups of (T, t), by pointer and by T's
\* virtual-file name, return the name of the first entry of T that points
\* at t.
C4_ReverseMapFirstName ==
    \A id \in Keys(serialized_file_map) : \A i \in EntryIds(id) :
        HasTarget(id, i) =>
            LET t == TargetOf(id, i)
            IN /\ get_container_name_by_pptr(PPtrNew(id, Some(t))) =
                      Some(FirstNameFor(id, t))
               /\ get_container_name_by_path_id(serialized_file_map[id].cab_path, t) =
                      Some(FirstNameFor(id, t))

\* C5: a pointer without a target identifier has no container name, whatever
\* table it belongs to, and a container name whose first candidate is such a
\* pointer resolves to Ok(None).
C5_AbsentTargetResolvesToNothing ==
    /\ \A pptr \in PPtrArgs :
          ~IsSome(get_path_id(pptr)) => get_container_name_by_pptr(pptr) = None
    /\ \A name \in Keys(container_maps) :
          ~IsSome(get_path_id(container_maps[name][1][2])) =>
              get_type_tree_object_by_container_name(name) = Ok(None)

\* C5 witness: between calls, a name whose first candidate has no target
\* identifier, held by a table in which object 0 has a container name.
C5_Witness ==
    /\ pc = "idle"
    /\ \E name \in Keys(container_maps) :
          LET first == container_maps[name][1]
          IN /\ ~IsSome(get_path_id(first[2]))
             /\ first[1] \in Keys(container_name_maps)
             /\ 0 \in Keys(container_name_maps[first[1]])

\* The registered tables that were extracted from a virtual file named path.
TablesNamed(path) ==
    {id \in Keys(serialized_file_map) : serialized_file_map[id].cab_path = path}

\* The most recently registered of a non-empty set of table ids.
Latest(ids) == CHOOSE id \in ids : \A other \in ids : other <= id

\* C6: cab_maps has a key exactly for the virtual-file names some registered
\* table was extracted from, and maps each to the most recently registered
\* such table; get_serialized_file_by_path returns that table, and every
\* earlier table of the same name is still in serialized_file_map.
C6_LastWriteWins ==
    \A path \in CabNames :
        IF TablesNamed(path) = {}
        THEN /\ path \notin Keys(cab_maps)
             /\ get_serialized_file_by_path(path) = None
        ELSE /\ path \in Keys(cab_maps)
             /\ cab_maps[path] = Latest(TablesNamed(path))
             /\ get_serialized_file_by_path(path) =
                    Some(serialized_file_map[Latest(TablesNamed(path))])

\* C6 witness: between calls, two registered tables of different content
\* share a virtual-file name and the lookup returns the later one.
C6_Witness ==
    /\ pc = "idle"
    /\ \E path \in CabNames : \E a, b \in TablesNamed(path) :
          /\ a < b
          /\ serialized_file_map[a].manifest # serialized_file_map[b].manifest
          /\ get_serialized_file_by_path(path) = Some(serialized_file_map[b])

\* C7 as stated: between calls, also after a failed one, every registered
\* table has an owning archive id, that archive is registered, and the three
\* archive lookups return an archive for the table.
C7_EveryTableHasItsArchive ==
    pc = "idle" =>
        \A id \in Keys(serialized_file_map) :
            /\ id \in Keys(serialized_file_to_unity_fs_map)
            /\ serialized_file_to_unity_fs_map[id] \in Keys(unity_fs_map)
            /\ IsSome(get_unity_fs_by_pptr(PPtrNew(id, None)))
            /\ IsSome(get_unity_fs_by_type_tree_object(TypeTreeObject(id, 0)))
            /\ IsSome(get_unity_fs_by_cab_path(serialized_file_map[id].cab_path))

\* Sequence s is an initial part of sequence t.
IsPrefix(s, t) == Len(s) <= Len(t) /\ \A i \in 1..Len(s) : t[i] = s[i]

\* C8: no step of read_dir, failing ones included, removes a key from
\* cab_maps, serialized_file_map, serialized_file_to_unity_fs_map,
\* container_maps or container_name_maps; a candidate list only gains
\* elements at its end; a table's reverse map, once stored, stays as it is.
C8_IngestionNeverRemoves ==
    [][ /\ Keys(cab_maps) \subseteq Keys(cab_maps')
        /\ Keys(serialized_file_map) \subseteq Keys(serialized_file_map')
        /\ Keys(serialized_file_to_unity_fs_map) \subseteq
               Keys(serialized_file_to_unity_fs_map')
        /\ Keys(container_maps) \subseteq Keys(container_maps')
        /\ Keys(container_name_maps) \subseteq Keys(container_name_maps')
        /\ \A name \in Keys(container_maps) :
              IsPrefix(container_maps[name], container_maps'[name])
        /\ \A id \in Keys(container_name_maps) :
              container_name_maps'[id] = container_name_maps[id]
      ]_vars

\* C8 witness: read_dir has just failed on a later virtual file of an
\* archive, and a table registered from an earlier virtual file of that
\* archive is still in every index, its candidates and reverse map included.
C8_Witness ==
    /\ pc = "idle"
    /\ ret = Some(Err)
    /\ \E id \in Keys(serialized_file_map) :
          /\ serialized_file_to_unity_fs_map[id] = unity_fs_count - 1
          /\ serialized_file_to_unity_fs_map[id] \notin Keys(unity_fs_map)
          /\ serialized_file_map[id].cab_path \in Keys(cab_maps)
          /\ id \in Keys(container_name_maps)
          /\ \E name \in Keys(container_maps) : container_maps[name][1][1] = id

\* C9: a lookup whose key is in none of the indices it consults returns None
\* (Ok(None) for get_type_tree_object_by_container_name), never an error.
C9_UnknownKeyIsAbsent ==
    /\ \A path \in CabNames \ Keys(cab_maps) :
          /\ get_serialized_file_by_path(path) = None
          /\ get_unity_fs_by_cab_path(path) = None
          /\ \A path_id \in PathIds : get_container_name_by_path_id(path, path_id) = None
    /\ \A path \in Keys(cab_maps) : \A path_id \in PathIds :
          (\/ cab_maps[path] \notin Keys(container_name_maps)
           \/ path_id \notin Keys(container_name_maps[cab_maps[path]]))
              => get_container_name_by_path_id(path, path_id) = None
    /\ \A pptr \in PPtrArgs :
          /\ get_serialized_file_id(pptr) \notin Keys(serialized_file_to_unity_fs_map)
                => get_unity_fs_by_pptr(pptr) = None
          /\ get_serialized_file_id(pptr) \notin Keys(container_name_maps)
                => get_container_name_by_pptr(pptr) = None
          /\ (/\ get_serialized_file_id(pptr) \in Keys(container_name_maps)
              /\ IsSome(get_path_id(pptr))
              /\ Unwrap(get_path_id(pptr)) \notin
                     Keys(container_name_maps[get_serialized_file_id(pptr)]))
                => get_container_name_by_pptr(pptr) = None
    /\ \A o \in ObjectArgs :
          o.serialized_file_id \notin Keys(serialized_file_to_unity_fs_map)
              => get_unity_fs_by_type_tree_object(o) = None
    /\ \A id \in Keys(serialized_file_to_unity_fs_map) :
          serialized_file_to_unity_fs_map[id] \notin Keys(unity_fs_map)
              => /\ get_unity_fs_by_pptr(PPtrNew(id, None)) = None
                 /\ get_unity_fs_by_type_tree_object(TypeTreeObject(id, 0)) = None
    /\ \A name \in Names \ Keys(container_maps) :
          /\ get_type_tree_object_by_container_name(name) = Ok(None)
          /\ get_serialized_file_by_container_name(name) = None

\* C9 witness: between calls, each index knows some keys and lacks others: a
\* virtual-file name, a container name, a table with a reverse map and one
\* without, and a table whose archive is not registered.
C9_Witness ==
    /\ pc = "idle"
    /\ Keys(cab_maps) # {} /\ CabNames \ Keys(cab_maps) # {}
    /\ Keys(container_maps) # {} /\ Names \ Keys(container_maps) # {}
    /\ Keys(container_name_maps) # {}
    /\ Keys(serialized_file_map) \ Keys(container_name_maps) # {}
    /\ \E id \in Keys(serialized_file_to_unity_fs_map) :
          serialized_file_to_unity_fs_map[id] \notin Keys(unity_fs_map)

\* C10: the step that registers a parsed table whose object 1 is absent, or
\* has no container array, does not end read_dir; it puts the table in
\* serialized_file_map, serialized_file_to_unity_fs_map and cab_maps, so that
\* the lookup by its virtual-file name returns it, and leaves container_maps
\* as it was.
C10_TableWithoutManifestRegistered ==
    [][ (pc = "parsed" /\ serialized_file.manifest.kind \in {"absent", "no_array"}) =>
          /\ pc' = "cabs"
          /\ ret' = None
          /\ Get(serialized_file_map', serialized_file.id) = Some(serialized_file)
          /\ Get(serialized_file_to_unity_fs_map', serialized_file.id) = Some(unity_fs_id)
          /\ Get(cab_maps', serialized_file.cab_path) = Some(serialized_file.id)
          /\ \A path \in CabNames :
                path = serialized_file.cab_path =>
                    get_serialized_file_by_path(path)' = Some(serialized_file)
          /\ container_maps' = container_maps
      ]_vars

\* C10 witness: a read_dir call has returned Ok after registering a table
\* without object 1 and a table without the container array; each is what
\* the lookup by its virtual-file name returns, and no candidate names either.
C10_Witness ==
    /\ pc = "idle"
    /\ ret = Some(Ok(None))
    /\ \E a, b \in Keys(serialized_file_map) :
          /\ serialized_file_map[a].manifest.kind = "absent"
          /\ serialized_file_map[b].manifest.kind = "no_array"
          /\ get_serialized_file_by_path(serialized_file_map[a].cab_path) =
                 Some(serialized_file_map[a])
          /\ get_serialized_file_by_path(serialized_file_map[b].cab_path) =
                 Some(serialized_file_map[b])
          /\ \A name \in Keys(container_maps) :
                \A i \in 1..Len(container_maps[name]) :
                    container_maps[name][i][1] \notin {a, b}

\* The viewer as UnityAssetViewer::new leaves it.
Fresh ==
    /\ cab_maps = EmptyMap
    /\ serialized_file_map = EmptyMap
    /\ serialized_file_to_unity_fs_map = EmptyMap
    /\ unity_fs_map = EmptyMap
    /\ container_maps = EmptyMap
    /\ container_name_maps = EmptyMap
    /\ serialized_file_count = 0
    /\ unity_fs_count = 0

\* Every lookup returns its absent result for every argument.
AllLookupsAbsent ==
    /\ \A path \in CabNames :
          /\ get_serialized_file_by_path(path) = None
          /\ get_unity_fs_by_cab_path(path) = None
          /\ \A path_id \in PathIds : get_container_name_by_path_id(path, path_id) = None
    /\ \A pptr \in PPtrArgs :
          /\ get_unity_fs_by_pptr(pptr) = None
          /\ get_container_name_by_pptr(pptr) = None
    /\ \A o \in ObjectArgs : get_unity_fs_by_type_tree_object(o) = None
    /\ \A name \in Names :
          /\ get_type_tree_object_by_container_name(name) = Ok(None)
          /\ get_serialized_file_by_container_name(name) = None

\* C11: the steps a read_dir call takes on a directory without regular files
\* (the loop starts, entries are passed over, the loop ends) leave the five
\* indices and both counters as they were, and the step that ends the loop
\* returns Ok; on a viewer nothing was ingested into, every lookup returns
\* its absent result for every key.
C11_NoFilesNoChange ==
    [][ /\ (\/ (pc = "idle" /\ pc' = "dir")
            \/ (pc = "dir" /\ pc' = "dir")
            \/ (pc = "dir" /\ pc' = "idle" /\ ret' = Some(Ok(None))))
              => UNCHANGED indices
        /\ ReadDirEnd => (pc' = "idle" /\ ret' = Some(Ok(None)))
        /\ Fresh' => AllLookupsAbsent'
      ]_vars

\* C11 witness: read_dir has returned Ok on a viewer that is still as new:
\* no archive identifier was handed out, so the directory had no regular file.
C11_Witness ==
    /\ pc = "idle"
    /\ ret = Some(Ok(None))
    /\ Fresh
    /\ AllLookupsAbsent

\* C12: a lookup step changes no index and no counter, and over any step
\* between read_dir calls get_serialized_file_by_path returns for every name
\* what it returned before the step.
C12_LookupsReadOnly ==
    [][ /\ Lookups => UNCHANGED indices
        /\ (pc = "idle" /\ pc' = "idle") =>
              \A path \in CabNames :
                  get_serialized_file_by_path(path)' = get_serialized_file_by_path(path)
      ]_vars

\* C12 witness: between read_dir calls, with a name that resolves to a table
\* and a name that resolves to none, so a lookup step has both to return.
C12_Witness ==
    /\ pc = "idle"
    /\ ENABLED SerializedFileByPath
    /\ \E path \in CabNames : IsSome(get_serialized_file_by_path(path))
    /\ \E path \in CabNames : get_serialized_file_by_path(path) = None

\* C13: every candidate stored in container_maps holds a pointer whose
\* target identifier is present, and the reverse map of the candidate's
\* table records that target under the candidate's name.
C13_CandidateOnlyWithTarget ==
    \A name \in Keys(container_maps) :
        \A i \in 1..Len(container_maps[name]) :
            LET cand == container_maps[name][i]
                path_id == get_path_id(cand[2])
            IN /\ IsSome(path_id)
               /\ get_container_name_by_path_id(serialized_file_map[cand[1]].cab_path,
                                                Unwrap(path_id)) # None
               /\ Get(container_name_maps[cand[1]], Unwrap(path_id)) = Some(name)

\* The table ids some index refers to: the keys of serialized_file_map,
\* serialized_file_to_unity_fs_map and container_name_maps, the values of
\* cab_maps and the table component of every candidate.
TableIdsIndexed ==
    Keys(serialized_file_map) \cup Keys(serialized_file_to_unity_fs_map)
        \cup Keys(container_name_maps)
        \cup {cab_maps[path] : path \in Keys(cab_maps)}
        \cup UNION {{container_maps[name][i][1] : i \in 1..Len(container_maps[name])} :
                        name \in Keys(container_maps)}

\* C14: a step of read_dir on which opening an archive, extracting a virtual
\* file or parsing it fails ends the call with the error as its result; it
\* leaves every index as it was, so the identifier the failing virtual file
\* may have taken is in none of them; and once the call has returned no
\* index changes before the next call starts.
C14_FailureAddsNothing ==
    [][ /\ (OpenFails \/ UnityFSReadFails \/ ExtractFails \/ ParseFails) =>
              (pc' = "idle" /\ ret' = Some(Err))
        /\ (pc # "idle" /\ ret' = Some(Err)) =>
              /\ pc' = "idle"
              /\ UNCHANGED <<cab_maps, serialized_file_map, unity_fs_map,
                             serialized_file_to_unity_fs_map, container_maps,
                             container_name_maps>>
              /\ \A id \in serialized_file_count..serialized_file_count' :
                     id \notin TableIdsIndexed'
        /\ pc = "idle" =>
              UNCHANGED <<cab_maps, serialized_file_map, unity_fs_map,
                          serialized_file_to_unity_fs_map, container_maps,
                          container_name_maps>>
      ]_vars

\* C14 witness: read_dir has just returned an error after the parse of a
\* virtual file failed: the identifier that file took is in no index, while
\* the table parsed before it is registered.
C14_Witness ==
    /\ pc = "idle"
    /\ ret = Some(Err)
    /\ serialized_file_count >= 2
    /\ serialized_file_count - 1 \notin TableIdsIndexed
    /\ serialized_file_count - 2 \in Keys(serialized_file_map)

\* C15: every table id that is a value of cab_maps, the table component of a
\* candidate or a key of container_name_maps is a key of serialized_file_map
\* and of serialized_file_to_unity_fs_map, and
\* get_serialized_file_by_container_name returns the table of the first
\* candidate for every name container_maps holds.
C15_TableIdsResolve ==
    /\ TableIdsIndexed \subseteq Keys(serialized_file_map)
    /\ TableIdsIndexed \subseteq Keys(serialized_file_to_unity_fs_map)
    /\ \A name \in Keys(container_maps) :
          /\ get_serialized_file_by_container_name(name) # None
          /\ Unwrap(get_serialized_file_by_container_name(name)).id =
                 container_maps[name][1][1]

\* C15 witness: in the middle of a read_dir call, two registered tables, each
\* named in cab_maps, each with a reverse map, each the table of a candidate.
C15_Witness ==
    /\ pc = "cabs"
    /\ \E a, b \in Keys(container_name_maps) :
          /\ a # b
          /\ \E p, q \in Keys(cab_maps) : cab_maps[p] = a /\ cab_maps[q] = b
          /\ \E n, m \in Keys(container_maps) :
                /\ \E i \in 1..Len(container_maps[n]) : container_maps[n][i][1] = a
                /\ \E j \in 1..Len(container_maps[m]) : container_maps[m][j][1] = b

\* C16: whenever the reverse map of table T records name n for target t, the
\* candidate list of n in container_maps holds a candidate whose table is T
\* and whose pointer has target t.
C16_ReverseEntryHasCandidate ==
    \A T \in Keys(container_name_maps) :
        \A t \in Keys(container_name_maps[T]) :
            LET n == container_name_maps[T][t]
            IN /\ n \in Keys(container_maps)
               /\ \E i \in 1..Len(container_maps[n]) :
                      /\ container_maps[n][i][1] = T
                      /\ get_path_id(container_maps[n][i][2]) = Some(t)

\* C16 witness: between calls, two tables record the same name in their
\* reverse maps, and the name's list holds a candidate of each; the second
\* table's candidate is not the first of the list.
C16_Witness ==
    /\ pc = "idle"
    /\ \E a, b \in Keys(container_name_maps) :
          /\ a < b
          /\ \E t \in Keys(container_name_maps[a]), u \in Keys(container_name_maps[b]) :
                /\ container_name_maps[a][t] = container_name_maps[b][u]
                /\ container_maps[container_name_maps[a][t]][1][1] = a
                /\ Len(container_maps[container_name_maps[a][t]]) >= 2

====
